---- MODULE Spec2Model ----
(***************************************************************************)
(* Model of scraper.py: the retry decorator, the download watcher, and the *)
(* run (login, report jobs, BigQuery load, cleanup).                       *)
(*                                                                         *)
(* Three state machines share the module:                                 *)
(*   SpecRetry   - retry_on_error around an arbitrary operation            *)
(*   SpecWatcher - one call of new_file_downloaded, with the browser       *)
(*                 writing into TEMP_DIR concurrently                      *)
(*   Spec        - main(): one whole run                                   *)
(*   SpecLive    - Spec, with the program's thread running to its end      *)
(***************************************************************************)
EXTENDS Integers, Sequences, FiniteSets, TLC

VARIABLES
  \* ---- retry_on_error.wrapper (one call) ----
  r_max,        \* max_attempts
  r_delay,      \* delay
  r_attempt,    \* the loop variable `attempt` (0-based)
  r_pc,         \* "try" | "sleep" | "exhausted" | "returned" | "raised"
  r_last,       \* last_exception
  r_out,        \* the value returned / the exception raised to the caller
  r_trace,      \* history: the calls of func and of sleep, in order
  r_excs,       \* history: the exception of each failed call of func, in order
  r_slept,      \* history: the argument of each call of sleep, in order
  \* ---- new_file_downloaded (one call) and TEMP_DIR as the browser writes it ----
  w_dir,        \* TEMP_DIR: file name -> [size, ctime], for the files present
  w_steps,      \* how many times the browser has touched TEMP_DIR (the clock)
  w_existing,   \* the parameter existing_files
  w_pc,         \* "list139" | "list146" | "newest" | "size1" | "sleep" | "size2" | "done"
  w_listed,     \* history: what os.listdir returned at line 139
  w_new,        \* new_files
  w_ctimes,     \* history: the getctime values read at line 151
  w_newest,     \* newest_file
  w_size1,      \* size1 (-1: not sampled)
  w_size2,      \* size2 (-1: not sampled)
  w_result,     \* the value returned (read when w_pc = "done")
  \* ---- main(): one run ----
  pc,           \* the retry-wrapped call (or plain step) main is in
  phase,        \* the wrapper around it: "try" | "sleep" | "exhausted"
  attempt,      \* the wrapper's loop variable `attempt`
  step,         \* the position inside the body of the call
  outcome,      \* how main left its try block: "running" | "returned" | "raised"
  lastDelay,    \* history: the delay of the last sleep(delay) of the wrapper (0: none)
  driver,       \* None | "open" | "quit"
  bq_client,    \* None | "client"
  landmark,     \* the post-login element (mobileToggle) has been observed
  idx,          \* the position of report_type in REPORT_TYPES
  existing,     \* existing_files of download_single_report
  dl,           \* the browser's download: "none" | "started" | "partial" | "complete"
  dir,          \* TEMP_DIR: file name -> [size, ctime, src], for the files present
  temp_dir,     \* TEMP_DIR exists
  tick,         \* the clock that stamps st_ctime
  jobs,         \* history, per report: what its download_single_report did
  tables,       \* the BigQuery tables: table -> the sequence of loaded batches
  p_todo,       \* the files of found_files the loop has not visited yet
  faults,       \* history: the failed steps of process_and_upload_to_bigquery
  entry         \* history: found_files of the first attempt of the load

retryVars == <<r_max, r_delay, r_attempt, r_pc, r_last, r_out, r_trace, r_excs,
               r_slept>>

watchVars == <<w_dir, w_steps, w_existing, w_pc, w_listed, w_new, w_ctimes,
               w_newest, w_size1, w_size2, w_result>>

ctlVars == <<pc, phase, attempt, step, outcome, lastDelay>>
sessVars == <<driver, bq_client, landmark>>
jobVars == <<idx, existing, dl, jobs>>
loadVars == <<tables, p_todo, faults, entry>>
runVars == <<ctlVars, sessVars, jobVars, dir, temp_dir, tick, loadVars>>

vars == <<retryVars, watchVars, runVars>>

----------------------------------------------------------------------------
(* Bounds *)

\* largest max_attempts explored by SpecRetry
MaxN == 4

\* largest file size the browser writes in SpecWatcher
MaxSize == 2

\* how many times the browser touches TEMP_DIR during one call of the watcher
MaxBrowserSteps == 3

----------------------------------------------------------------------------
(* retry_on_error *)

None == "None"

\* what the wrapped operation can raise, and what it can return
Exceptions == {"E1", "E2"}
Values == {"V1", "V2"}

\* the delays a decorator is given (lines 87, 95, 182; in units of 5 s)
Delays == {1, 3}

\* line 79: `if attempt + 1 < max_attempts`
AttemptsRemainMut(att, max_attempts) == att < max_attempts

AttemptsRemain(att, max_attempts) == att + 1 < max_attempts

\* line 74: `for attempt in range(max_attempts)`: after iteration `attempt`,
\* either the next iteration or the end of the loop
LoopNextMut(att, max_attempts) ==
  IF att < max_attempts THEN "try" ELSE "exhausted"

LoopNext(att, max_attempts) ==
  IF att + 1 < max_attempts THEN "try" ELSE "exhausted"

\* lines 77-81: the except clause: sleep(delay) first, or straight to `continue`
AfterFailure(att, max_attempts) ==
  IF AttemptsRemain(att, max_attempts)
    THEN "sleep"
    ELSE LoopNext(att, max_attempts)

\* line 80: `sleep(delay)`, the decorator's argument at every attempt
SleepTimeMut(delay, att) == delay * (att + 1)

SleepTime(delay, att) == delay

\* line 83: `raise last_exception`
RaisedOnExhaustionMut(excs, last) == excs[1]

RaisedOnExhaustion(excs, last) == last

\* the state of the wrapper in the specifications that are not about it
RetryIdle ==
  /\ r_max = 0
  /\ r_delay = 0
  /\ r_attempt = 0
  /\ r_pc = "idle"
  /\ r_last = None
  /\ r_out = None
  /\ r_trace = <<>>
  /\ r_excs = <<>>
  /\ r_slept = <<>>

RetryInit ==
  /\ r_max \in 1..MaxN
  /\ r_delay \in Delays
  /\ r_attempt = 0
  /\ r_pc = "try"
  /\ r_last = None
  /\ r_out = None
  /\ r_trace = <<>>
  /\ r_excs = <<>>
  /\ r_slept = <<>>

\* line 76, func returns: the wrapper returns its value
RetryReturn ==
  /\ r_pc = "try"
  /\ \E v \in Values :
       /\ r_out' = v
       /\ r_pc' = "returned"
  /\ r_trace' = Append(r_trace, "call")
  /\ UNCHANGED <<r_max, r_delay, r_attempt, r_last, r_excs, r_slept>>
  /\ UNCHANGED <<watchVars, runVars>>

\* lines 76-81, func raises: remember the exception, then sleep or leave the loop
RetryFail ==
  /\ r_pc = "try"
  /\ \E e \in Exceptions :
       /\ r_last' = e
       /\ r_excs' = Append(r_excs, e)
  /\ r_trace' = Append(r_trace, "call")
  /\ r_pc' = AfterFailure(r_attempt, r_max)
  /\ r_attempt' = IF r_pc' = "sleep" THEN r_attempt ELSE r_attempt + 1
  /\ UNCHANGED <<r_max, r_delay, r_out, r_slept, watchVars, runVars>>

\* lines 80-81 and 74: sleep(delay), then `continue`
RetrySleep ==
  /\ r_pc = "sleep"
  /\ r_trace' = Append(r_trace, "sleep")
  /\ r_slept' = Append(r_slept, SleepTime(r_delay, r_attempt))
  /\ r_attempt' = r_attempt + 1
  /\ r_pc' = LoopNext(r_attempt, r_max)
  /\ UNCHANGED <<r_max, r_delay, r_last, r_out, r_excs, watchVars, runVars>>

\* lines 82-83: the loop is over, raise last_exception
RetryExhaust ==
  /\ r_pc = "exhausted"
  /\ r_out' = RaisedOnExhaustion(r_excs, r_last)
  /\ r_pc' = "raised"
  /\ UNCHANGED <<r_max, r_delay, r_attempt, r_last, r_trace, r_excs, r_slept>>
  /\ UNCHANGED <<watchVars, runVars>>

RetryNext == RetryReturn \/ RetryFail \/ RetrySleep \/ RetryExhaust

----------------------------------------------------------------------------
(* Claims about retry_on_error *)

Count(s, x) == Cardinality({i \in 1..Len(s) : s[i] = x})

AllFailed == r_pc = "raised"

\* C1: when every attempt fails, func is invoked exactly max_attempts times and
\* sleep(delay) happens exactly once between two consecutive attempts
\* (max_attempts - 1 sleeps), never after the last attempt.
C1_ExactAttempts ==
  AllFailed =>
    /\ Count(r_trace, "call") = r_max
    /\ Count(r_trace, "sleep") = r_max - 1
    /\ Len(r_trace) = 2 * r_max - 1
    /\ \A i \in 1..Len(r_trace) :
         r_trace[i] = (IF i % 2 = 1 THEN "call" ELSE "sleep")

C1_Witness == AllFailed /\ r_max = 3 /\ Len(r_trace) = 5

\* C2: when all attempts fail, the wrapper raises the exception of the last
\* (max_attempts-th) attempt and returns no value.
C2_RaisesLast ==
  AllFailed =>
    /\ Len(r_excs) = r_max
    /\ r_out = r_excs[r_max]
    /\ r_out \in Exceptions
    /\ r_out \notin Values

C2_Witness ==
  AllFailed /\ r_max = 3 /\ r_excs = <<"E1", "E1", "E2">> /\ r_out = "E2"

\* C17: when func fails on attempts 1..k-1 and returns on attempt k (k <=
\* max_attempts), func is invoked exactly k times, sleep is called exactly k-1
\* times, each with the same delay, between consecutive attempts; the wrapper
\* returns the value of attempt k, and nothing is invoked after it.
C17_SuccessAtK ==
  r_pc = "returned" =>
    LET k == Len(r_excs) + 1 IN
    /\ k <= r_max
    /\ r_attempt = k - 1
    /\ Count(r_trace, "call") = k
    /\ Count(r_trace, "sleep") = k - 1
    /\ Len(r_trace) = 2 * k - 1
    /\ \A i \in 1..Len(r_trace) :
         r_trace[i] = (IF i % 2 = 1 THEN "call" ELSE "sleep")
    /\ r_slept = [i \in 1..(k - 1) |-> r_delay]
    /\ r_out \in Values
    /\ ~ENABLED RetryNext

C17_Witness ==
  /\ r_pc = "returned" /\ r_max = 4 /\ r_delay = 3
  /\ r_excs = <<"E2", "E1">> /\ r_out = "V2"
  /\ r_slept = <<3, 3>>

----------------------------------------------------------------------------
(* File names and TEMP_DIR *)

\* A file name is the sequence of its characters; a stem without a dot is kept
\* as one element.
CSV == <<".", "c", "s", "v">>
TMP == <<".", "t", "m", "p">>
CRDOWNLOAD == <<".", "c", "r", "d", "o", "w", "n", "l", "o", "a", "d">>

midia_csv == <<"midia">> \o CSV
dl_csv == <<"dl">> \o CSV
dl_csv_crdownload == dl_csv \o CRDOWNLOAD
x_tmp == <<"x">> \o TMP
datacsv == <<"data", "c", "s", "v">>

\* the names the browser uses in SpecWatcher
WatchNames == {midia_csv, dl_csv, dl_csv_crdownload, x_tmp, datacsv}

\* Chrome ends a download by renaming its .crdownload file to the final name
FinishRenames == {<<dl_csv_crdownload, dl_csv>>}

\* str.endswith(suffix)
EndsWithMut(s, suf) ==
  /\ Len(s) >= Len(suf) - 1
  /\ SubSeq(s, Len(s) - Len(suf) + 2, Len(s)) = SubSeq(suf, 2, Len(suf))

EndsWith(s, suf) ==
  /\ Len(s) >= Len(suf)
  /\ SubSeq(s, Len(s) - Len(suf) + 1, Len(s)) = suf

\* os.listdir(TEMP_DIR)
ListDir(d) == DOMAIN d

\* a directory with file n created or replaced / removed
Put(d, n, r) == [x \in (DOMAIN d) \cup {n} |-> IF x = n THEN r ELSE d[x]]
Drop(d, n) == [x \in (DOMAIN d) \ {n} |-> d[x]]

----------------------------------------------------------------------------
(* new_file_downloaded *)

\* lines 139-140: current_files - existing_files
NewFilesMut(listing, existing_files) == {f \in listing : EndsWith(f, CSV)}

NewFiles(listing, existing_files) ==
  {f \in listing : EndsWith(f, CSV)} \ existing_files

\* line 146: the files with an in-progress extension
DownloadingFiles(listing) ==
  {f \in listing : EndsWith(f, TMP) \/ EndsWith(f, CRDOWNLOAD)}

\* line 151: max(..., key=os.path.getctime): the files of greatest ctime
\* (max returns one of them)
Newest(files, ctimes) ==
  {f \in files : \A g \in files : ctimes[g] <= ctimes[f]}

\* line 158: size1 == size2 and size1 > 0
SizeStableMut(size1, size2) == size1 = size2

SizeStable(size1, size2) == size1 = size2 /\ size1 > 0

\* the state of the watcher in the specifications that are not about it
WatchIdle ==
  /\ w_existing = {}
  /\ w_dir = <<>>
  /\ w_steps = 0
  /\ w_pc = "idle"
  /\ w_listed = {}
  /\ w_new = {}
  /\ w_ctimes = <<>>
  /\ w_newest = <<>>
  /\ w_size1 = -1
  /\ w_size2 = -1
  /\ w_result = FALSE

WatchInit ==
  /\ w_existing \in SUBSET {midia_csv, dl_csv}
  /\ \E present \in SUBSET {midia_csv, dl_csv} :
       w_dir = [n \in present |-> [size |-> 1, ctime |-> 0]]
  /\ w_steps = 0
  /\ w_pc = "list139"
  /\ w_listed = {}
  /\ w_new = {}
  /\ w_ctimes = <<>>
  /\ w_newest = <<>>
  /\ w_size1 = -1
  /\ w_size2 = -1
  /\ w_result = FALSE

\* `return v`
WReturn(v) == w_result' = v /\ w_pc' = "done"

\* lines 139-143
W_ListNew ==
  /\ w_pc = "list139"
  /\ w_listed' = ListDir(w_dir)
  /\ w_new' = NewFiles(ListDir(w_dir), w_existing)
  /\ IF w_new' = {}
       THEN WReturn(FALSE)
       ELSE w_pc' = "list146" /\ UNCHANGED w_result
  /\ UNCHANGED <<w_dir, w_steps, w_existing, w_ctimes, w_newest, w_size1, w_size2,
                 retryVars, runVars>>

\* lines 146-148
W_ListDownloading ==
  /\ w_pc = "list146"
  /\ IF DownloadingFiles(ListDir(w_dir)) # {}
       THEN WReturn(FALSE)
       ELSE w_pc' = "newest" /\ UNCHANGED w_result
  /\ UNCHANGED <<w_dir, w_steps, w_existing, w_listed, w_new, w_ctimes,
                 w_newest, w_size1, w_size2,
                 retryVars, runVars>>

\* line 151; getctime of a file that is gone raises FileNotFoundError (line 159)
W_Newest ==
  /\ w_pc = "newest"
  /\ IF w_new \subseteq DOMAIN w_dir
       THEN /\ w_ctimes' = [f \in w_new |-> w_dir[f].ctime]
            /\ w_newest' \in Newest(w_new, w_ctimes')
            /\ w_pc' = "size1"
            /\ UNCHANGED w_result
       ELSE /\ WReturn(FALSE)
            /\ UNCHANGED <<w_ctimes, w_newest>>
  /\ UNCHANGED <<w_dir, w_steps, w_existing, w_listed, w_new, w_size1, w_size2,
                 retryVars, runVars>>

\* line 154
W_Size1 ==
  /\ w_pc = "size1"
  /\ IF w_newest \in DOMAIN w_dir
       THEN /\ w_size1' = w_dir[w_newest].size
            /\ w_pc' = "sleep"
            /\ UNCHANGED w_result
       ELSE /\ WReturn(FALSE)
            /\ UNCHANGED w_size1
  /\ UNCHANGED <<w_dir, w_steps, w_existing, w_listed, w_new, w_ctimes,
                 w_newest, w_size2,
                 retryVars, runVars>>

\* line 155: time.sleep(1)
W_Sleep ==
  /\ w_pc = "sleep"
  /\ w_pc' = "size2"
  /\ UNCHANGED <<w_dir, w_steps, w_existing, w_listed, w_new, w_ctimes,
                 w_newest, w_size1, w_size2, w_result,
                 retryVars, runVars>>

\* lines 156-158
W_Size2 ==
  /\ w_pc = "size2"
  /\ IF w_newest \in DOMAIN w_dir
       THEN /\ w_size2' = w_dir[w_newest].size
            /\ WReturn(SizeStable(w_size1, w_size2'))
       ELSE /\ WReturn(FALSE)
            /\ UNCHANGED w_size2
  /\ UNCHANGED <<w_dir, w_steps, w_existing, w_listed, w_new, w_ctimes,
                 w_newest, w_size1,
                 retryVars, runVars>>

\* The browser, while the call runs: it creates a file, ...
BrowserCreate ==
  /\ w_pc # "done" /\ w_steps < MaxBrowserSteps
  /\ \E n \in WatchNames \ DOMAIN w_dir :
       w_dir' = Put(w_dir, n, [size |-> 0, ctime |-> w_steps + 1])
  /\ w_steps' = w_steps + 1
  /\ UNCHANGED <<w_existing, w_pc, w_listed, w_new, w_ctimes, w_newest,
                 w_size1, w_size2, w_result,
                 retryVars, runVars>>

\* ... appends to one (a write changes st_ctime), ...
BrowserWrite ==
  /\ w_pc # "done" /\ w_steps < MaxBrowserSteps
  /\ \E n \in DOMAIN w_dir :
       /\ w_dir[n].size < MaxSize
       /\ w_dir' = Put(w_dir, n, [size |-> w_dir[n].size + 1, ctime |-> w_steps + 1])
  /\ w_steps' = w_steps + 1
  /\ UNCHANGED <<w_existing, w_pc, w_listed, w_new, w_ctimes, w_newest,
                 w_size1, w_size2, w_result,
                 retryVars, runVars>>

\* ... removes one, ...
BrowserRemove ==
  /\ w_pc # "done" /\ w_steps < MaxBrowserSteps
  /\ \E n \in DOMAIN w_dir : w_dir' = Drop(w_dir, n)
  /\ w_steps' = w_steps + 1
  /\ UNCHANGED <<w_existing, w_pc, w_listed, w_new, w_ctimes, w_newest,
                 w_size1, w_size2, w_result,
                 retryVars, runVars>>

\* ... or renames a finished .crdownload file to its final name.
BrowserFinish ==
  /\ w_pc # "done" /\ w_steps < MaxBrowserSteps
  /\ \E p \in FinishRenames :
       /\ p[1] \in DOMAIN w_dir
       /\ w_dir' = Put(Drop(w_dir, p[1]), p[2],
                       [size |-> w_dir[p[1]].size, ctime |-> w_steps + 1])
  /\ w_steps' = w_steps + 1
  /\ UNCHANGED <<w_existing, w_pc, w_listed, w_new, w_ctimes, w_newest,
                 w_size1, w_size2, w_result,
                 retryVars, runVars>>

WatchNext ==
  \/ W_ListNew \/ W_ListDownloading \/ W_Newest \/ W_Size1 \/ W_Sleep \/ W_Size2
  \/ BrowserCreate \/ BrowserWrite \/ BrowserRemove \/ BrowserFinish

----------------------------------------------------------------------------
(* Claims about new_file_downloaded *)

\* The directory of a state with w_pc = "done" is the directory at the moment
\* of the return: the browser's actions are those that happen during the call.
ReturnedTrue == w_pc = "done" /\ w_result = TRUE

InProgress(f) ==
  \/ \E k \in 0..Len(f) : f = SubSeq(f, 1, k) \o TMP
  \/ \E k \in 0..Len(f) : f = SubSeq(f, 1, k) \o CRDOWNLOAD

IsCsvName(f) == \E k \in 0..Len(f) : f = SubSeq(f, 1, k) \o CSV

\* C3: new_file_downloaded never returns True while a file with an in-progress
\* extension (.tmp, .crdownload) exists in TEMP_DIR, also when the browser
\* creates or removes files between the listing and the size samples.
C3_NoTrueWhileInProgress ==
  ReturnedTrue => \A f \in DOMAIN w_dir : ~InProgress(f)

\* C4: new_file_downloaded returns True only when the two size samples of the
\* one candidate (the new .csv file of greatest ctime), taken before and after
\* the pause, are equal and greater than zero; a zero size or a changed size
\* gives False.
C4_StableNonZero ==
  /\ ReturnedTrue =>
       /\ w_size1 = w_size2
       /\ w_size1 > 0
       /\ w_newest \in w_new
       /\ \A g \in w_new : w_ctimes[g] <= w_ctimes[w_newest]
       /\ w_dir[w_newest].size = w_size2
  /\ (w_pc = "done" /\ w_size2 # -1 /\ (w_size1 = 0 \/ w_size1 # w_size2))
       => w_result = FALSE

C4_Witness ==
  /\ ReturnedTrue
  /\ w_size1 = 2
  /\ Cardinality(w_new) = 2

\* C5: the candidate set is (the names of the current listing that end in
\* .csv) minus (the before snapshot): a file of both listings is no candidate,
\* and a file that is no .csv file is no candidate.
C5_NewFilesIsDifference ==
  w_pc # "list139" =>
    /\ \A f \in w_new : f \in w_listed /\ IsCsvName(f) /\ f \notin w_existing
    /\ \A f \in w_listed : (IsCsvName(f) /\ f \notin w_existing) => f \in w_new

C5_Witness ==
  /\ w_pc # "list139"
  /\ w_new = {dl_csv}
  /\ w_existing = {midia_csv}
  /\ {midia_csv, datacsv, x_tmp} \subseteq w_listed

----------------------------------------------------------------------------
(* The run: constants of the program *)

\* line 31: REPORT_TYPES, in order
REPORT_TYPES ==
  <<"Relatorio de Midia", "Relatorio de Registros",
    "Relatorio de Ganhos", "Relatorio de atividades">>

registros_csv == <<"registros">> \o CSV
ganhos_csv == <<"ganhos">> \o CSV
atividades_csv == <<"atividades">> \o CSV

\* line 38
REPORT_FILE_MAPPING(report_type) ==
  CASE report_type = "Relatorio de Midia" -> midia_csv
    [] report_type = "Relatorio de Registros" -> registros_csv
    [] report_type = "Relatorio de Ganhos" -> ganhos_csv
    [] report_type = "Relatorio de atividades" -> atividades_csv

\* line 45: the keys of TABLE_MAPPING ...
MappedFiles == {midia_csv, registros_csv, ganhos_csv, atividades_csv}

\* ... and its values
TABLE_MAPPING(csv_file) ==
  CASE csv_file = midia_csv -> "midia"
    [] csv_file = registros_csv -> "registros"
    [] csv_file = ganhos_csv -> "ganhos"
    [] csv_file = atividades_csv -> "atividades"

Tables == {"midia", "registros", "ganhos", "atividades"}

\* line 306: TEMP_DIR / f"{table_name}.parquet"
PARQUET == <<".", "p", "a", "r", "q", "u", "e", "t">>
ParquetFile(table_name) == <<table_name>> \o PARQUET

\* the name Chrome gives the downloaded file: the server's name, or that name
\* with " (1)" when it is taken
dl1_csv == <<"dl (1)">> \o CSV
DownloadName(d) == IF dl_csv \in DOMAIN d THEN dl1_csv ELSE dl_csv

\* the decorators: lines 87, 95, 115, 182, 284
SetupAttempts == 5
SetupDelay == 5
LoginAttempts == 5
LoginDelay == 300
JobAttempts == 5
JobDelay == 15
LoadAttempts == 5
LoadDelay == 30

MaxAttemptsOf(call) ==
  CASE call \in {"setup_browser", "setup_bigquery"} -> SetupAttempts
    [] call = "login" -> LoginAttempts
    [] call = "job" -> JobAttempts
    [] call = "load" -> LoadAttempts

DelayOf(call) ==
  CASE call \in {"setup_browser", "setup_bigquery"} -> SetupDelay
    [] call = "login" -> LoginDelay
    [] call = "job" -> JobDelay
    [] call = "load" -> LoadDelay

\* where the body of a call starts
FirstStep(call) ==
  CASE call = "job" -> "generate"
    [] call = "load" -> "list"
    [] OTHER -> "body"

----------------------------------------------------------------------------
(* The run: main() up to download_reports *)

\* files a run can find in TEMP_DIR when it starts (line 59: mkdir(exist_ok=True)
\* keeps what an earlier run, whose cleanup failed, left there)
StaleFile == [size |-> 1, ctime |-> 0, src |-> "stale"]

\* the history of a report job: whether its body was entered (tried), whether
\* an attempt found no export button (nodata), whether export was clicked, how
\* the download wait and the rename ended, what navigate_back_to_reports
\* returned, and what the wrapped call gave
NoJob ==
  [tried |-> FALSE, nodata |-> FALSE, exported |-> FALSE, waited |-> None,
   renamed |-> None, nav |-> None, result |-> None]

RunIdle ==
  /\ pc = "idle" /\ phase = "try" /\ attempt = 0 /\ step = "body"
  /\ outcome = "running" /\ lastDelay = 0
  /\ driver = None /\ bq_client = None /\ landmark = FALSE
  /\ idx = 0 /\ existing = {} /\ dl = "none"
  /\ jobs = <<>>
  /\ dir = <<>> /\ temp_dir = FALSE /\ tick = 0
  /\ tables = <<>> /\ p_todo = {} /\ faults = 0 /\ entry = {}

RunInit ==
  /\ pc = "setup_browser" /\ phase = "try" /\ attempt = 0 /\ step = "body"
  /\ outcome = "running" /\ lastDelay = 0
  /\ driver = None /\ bq_client = None /\ landmark = FALSE
  /\ idx = 0 /\ existing = {} /\ dl = "none"
  /\ jobs = [i \in 1..Len(REPORT_TYPES) |-> NoJob]
  /\ \E stale \in SUBSET {ganhos_csv, dl_csv} : dir = [n \in stale |-> StaleFile]
  /\ temp_dir = TRUE
  /\ tick = 0
  /\ tables = [t \in Tables |-> IF t = "midia" THEN <<"old">> ELSE <<>>]
  /\ p_todo = {} /\ faults = 0 /\ entry = {}

\* main, lines 369-373: an exception leaves the try block for cleanup
OnRaiseMut(call) == IF call = "login" THEN "nav_reports" ELSE "cleanup"

OnRaise(call) == "cleanup"

\* the wrapper's except clause (lines 77-81) for the call main is in
WrappedRaise ==
  /\ phase' = AfterFailure(attempt, MaxAttemptsOf(pc))
  /\ attempt' = IF phase' = "sleep" THEN attempt ELSE attempt + 1
  /\ step' = FirstStep(pc)
  /\ UNCHANGED <<pc, outcome, lastDelay>>

\* entering the next retry-wrapped call
Enter(call) ==
  /\ pc' = call
  /\ phase' = "try"
  /\ attempt' = 0
  /\ step' = FirstStep(call)
  /\ lastDelay' = 0
  /\ UNCHANGED outcome

\* main leaves its try block
Leave(how, call) ==
  /\ outcome' = how
  /\ pc' = IF how = "raised" THEN OnRaise(call) ELSE "cleanup"
  /\ phase' = "try"
  /\ step' = "body"
  /\ UNCHANGED <<attempt, lastDelay>>

\* lines 80-81: sleep(delay), then the next iteration
RunSleep ==
  /\ phase = "sleep"
  /\ lastDelay' = DelayOf(pc)
  /\ attempt' = attempt + 1
  /\ phase' = LoopNext(attempt, MaxAttemptsOf(pc))
  /\ UNCHANGED <<pc, step, outcome, sessVars, jobVars, dir, temp_dir, tick, loadVars>>
  /\ UNCHANGED <<retryVars, watchVars>>

\* lines 82-83: every attempt failed, the wrapper raises into main
RunExhaust ==
  /\ phase = "exhausted"
  /\ Leave("raised", pc)
  /\ jobs' = IF pc = "job" THEN [jobs EXCEPT ![idx].result = "raised"] ELSE jobs
  /\ UNCHANGED <<sessVars, idx, existing, dl, dir, temp_dir, tick, loadVars>>
  /\ UNCHANGED <<retryVars, watchVars>>

\* lines 95-113 (line 351)
SetupBrowser ==
  /\ pc = "setup_browser" /\ phase = "try"
  /\ \/ /\ driver' = "open"
        /\ Enter("setup_bigquery")
     \/ /\ WrappedRaise
        /\ UNCHANGED driver
  /\ UNCHANGED <<bq_client, landmark, jobVars, dir, temp_dir, tick, loadVars>>
  /\ UNCHANGED <<retryVars, watchVars>>

\* lines 87-93 (line 355)
SetupBigquery ==
  /\ pc = "setup_bigquery" /\ phase = "try"
  /\ \/ /\ bq_client' = "client"
        /\ Enter("login")
     \/ /\ WrappedRaise
        /\ UNCHANGED bq_client
  /\ UNCHANGED <<driver, landmark, jobVars, dir, temp_dir, tick, loadVars>>
  /\ UNCHANGED <<retryVars, watchVars>>

\* lines 115-135 (line 359): True once mobileToggle is seen, else the exception
Login ==
  /\ pc = "login" /\ phase = "try"
  /\ \/ /\ landmark' = TRUE
        /\ Enter("nav_reports")
     \/ /\ WrappedRaise
        /\ UNCHANGED landmark
  /\ UNCHANGED <<driver, bq_client, jobVars, dir, temp_dir, tick, loadVars>>
  /\ UNCHANGED <<retryVars, watchVars>>

\* download_reports, lines 273-278: open the reports section (not wrapped: a
\* failure goes straight to main), then the first report
NavReports ==
  /\ pc = "nav_reports"
  /\ \/ /\ Enter("job")
        /\ idx' = 1
     \/ /\ Leave("raised", pc)
        /\ UNCHANGED idx
  /\ UNCHANGED <<sessVars, existing, dl, jobs, dir, temp_dir, tick, loadVars>>
  /\ UNCHANGED <<retryVars, watchVars>>

----------------------------------------------------------------------------
(* The run: download_reports and download_single_report *)

\* lines 164, 190, 287: the .csv files of TEMP_DIR
CsvFiles(d) == {f \in ListDir(d) : EndsWith(f, CSV)}

Ctimes(d) == [f \in DOMAIN d |-> d[f].ctime]

\* lines 137-160, one poll of download_wait.until that returns True
WatcherDone(d, existing_files) ==
  LET new_files == NewFiles(ListDir(d), existing_files) IN
  /\ new_files # {}
  /\ DownloadingFiles(ListDir(d)) = {}
  /\ \E newest_file \in Newest(new_files, Ctimes(d)) :
       SizeStable(d[newest_file].size, d[newest_file].size)

\* lines 210-214: without an export button the job goes to
\* navigate_back_to_reports, with one it goes on to click it
AfterExportCheckMut(has_export) == "export"

AfterExportCheck(has_export) == IF has_export THEN "export" ELSE "nav"

\* lines 278-282: what download_reports does with the result of a job
DownloadReportsNextMut(result, i) ==
  IF i < Len(REPORT_TYPES) THEN "next" ELSE "return True"

DownloadReportsNext(result, i) ==
  IF ~result THEN "return False"
  ELSE IF i < Len(REPORT_TYPES) THEN "next" ELSE "return True"

\* download_single_report returns result: download_reports (lines 278-282)
\* and main (lines 362-365) go on
JobReturn(result) ==
  LET nxt == DownloadReportsNext(result, idx) IN
  /\ existing' = {}
  /\ CASE nxt = "next" -> Enter("job") /\ idx' = idx + 1
       [] nxt = "return True" -> Enter("load") /\ UNCHANGED idx
       [] nxt = "return False" -> Leave("returned", pc) /\ UNCHANGED idx

\* lines 190-207: snapshot, report link, date range, "Gerar relatorio"
J_Generate ==
  /\ pc = "job" /\ phase = "try" /\ step = "generate"
  /\ existing' = CsvFiles(dir)
  /\ jobs' = [jobs EXCEPT ![idx].tried = TRUE]
  /\ \/ /\ step' = "check_export"
        /\ UNCHANGED <<pc, phase, attempt, outcome, lastDelay>>
     \/ WrappedRaise
  /\ UNCHANGED <<sessVars, idx, dl, dir, temp_dir, tick, loadVars>>
  /\ UNCHANGED <<retryVars, watchVars>>

\* lines 209-212: find_elements gives the export buttons, or none
J_CheckExport ==
  /\ pc = "job" /\ phase = "try" /\ step = "check_export"
  /\ \E has_export \in BOOLEAN :
       /\ step' = AfterExportCheck(has_export)
       /\ jobs' = [jobs EXCEPT ![idx].nodata = ~has_export]
  /\ UNCHANGED <<pc, phase, attempt, outcome, lastDelay>>
  /\ UNCHANGED <<sessVars, idx, existing, dl, dir, temp_dir, tick, loadVars>>
  /\ UNCHANGED <<retryVars, watchVars>>

\* lines 214-218: wait for the export button and click it
J_Export ==
  /\ pc = "job" /\ phase = "try" /\ step = "export"
  /\ \/ /\ step' = "wait"
        /\ dl' = "started"
        /\ jobs' = [jobs EXCEPT ![idx].exported = TRUE]
        /\ UNCHANGED <<pc, phase, attempt, outcome, lastDelay>>
     \/ /\ WrappedRaise
        /\ UNCHANGED <<dl, jobs>>
  /\ UNCHANGED <<sessVars, idx, existing, dir, temp_dir, tick, loadVars>>
  /\ UNCHANGED <<retryVars, watchVars>>

\* Chrome starts writing the download into a .crdownload file ...
B_Begin ==
  /\ pc = "job" /\ step = "wait" /\ dl = "started"
  /\ dir' = Put(dir, dl_csv_crdownload,
                [size |-> 0, ctime |-> tick + 1, src |-> REPORT_TYPES[idx]])
  /\ tick' = tick + 1
  /\ dl' = "partial"
  /\ UNCHANGED <<ctlVars, sessVars, idx, existing, jobs, temp_dir, loadVars>>
  /\ UNCHANGED <<retryVars, watchVars>>

\* ... and ends by renaming it; the report may be empty
B_Finish ==
  /\ pc = "job" /\ step = "wait" /\ dl = "partial"
  /\ \E size \in {0, 1} :
       dir' = Put(Drop(dir, dl_csv_crdownload), DownloadName(dir),
                  [size |-> size, ctime |-> tick + 1, src |-> REPORT_TYPES[idx]])
  /\ tick' = tick + 1
  /\ dl' = "complete"
  /\ UNCHANGED <<ctlVars, sessVars, idx, existing, jobs, temp_dir, loadVars>>
  /\ UNCHANGED <<retryVars, watchVars>>

\* lines 221-224, 230: a poll of new_file_downloaded returned True
J_WaitDone ==
  /\ pc = "job" /\ phase = "try" /\ step = "wait"
  /\ WatcherDone(dir, existing)
  /\ step' = "rename"
  /\ jobs' = [jobs EXCEPT ![idx].waited = "done"]
  /\ UNCHANGED <<pc, phase, attempt, outcome, lastDelay>>
  /\ UNCHANGED <<sessVars, idx, existing, dl, dir, temp_dir, tick, loadVars>>
  /\ UNCHANGED <<retryVars, watchVars>>

\* lines 225-227: no poll returned True within 2*60 s: return False
J_WaitTimeout ==
  /\ pc = "job" /\ phase = "try" /\ step = "wait"
  /\ ~WatcherDone(dir, existing)
  /\ jobs' = [jobs EXCEPT ![idx].waited = "timeout", ![idx].result = "False"]
  /\ JobReturn(FALSE)
  /\ UNCHANGED <<sessVars, dl, dir, temp_dir, tick, loadVars>>
  /\ UNCHANGED <<retryVars, watchVars>>

\* rename_downloaded_file, lines 162-180: the directory it leaves, when the
\* newest .csv file is latest_file and no call fails before os.rename
RenamedMut(d, report_type, latest_file, now) ==
  LET new_filename == REPORT_FILE_MAPPING(report_type)
      removed == IF new_filename \in DOMAIN d THEN Drop(d, new_filename) ELSE d
  IN  IF latest_file \in DOMAIN removed
        THEN Put(removed, new_filename, [removed[latest_file] EXCEPT !.ctime = now])
        ELSE removed

Renamed(d, report_type, latest_file, now) ==
  LET new_filename == REPORT_FILE_MAPPING(report_type)
      removed == IF new_filename \in DOMAIN d THEN Drop(d, new_filename) ELSE d
  IN  IF latest_file \in DOMAIN removed
        THEN Put(Drop(removed, latest_file), new_filename,
                 [removed[latest_file] EXCEPT !.ctime = now])
        ELSE removed

\* lines 232-234: rename_downloaded_file gives the new name, or None (no .csv
\* file, or an OSError, caught at line 178), and then the job returns False
J_Rename ==
  /\ pc = "job" /\ phase = "try" /\ step = "rename"
  /\ \/ /\ CsvFiles(dir) # {}
        /\ \E latest_file \in Newest(CsvFiles(dir), Ctimes(dir)) :
             /\ dir' = Renamed(dir, REPORT_TYPES[idx], latest_file, tick + 1)
             /\ IF latest_file # REPORT_FILE_MAPPING(REPORT_TYPES[idx])
                  THEN /\ step' = "nav"
                       /\ jobs' = [jobs EXCEPT ![idx].renamed = "ok"]
                       /\ UNCHANGED <<pc, phase, attempt, outcome, lastDelay, idx,
                                      existing>>
                  ELSE /\ jobs' = [jobs EXCEPT ![idx].renamed = "failed",
                                               ![idx].result = "False"]
                       /\ JobReturn(FALSE)
        /\ tick' = tick + 1
     \/ /\ jobs' = [jobs EXCEPT ![idx].renamed = "failed", ![idx].result = "False"]
        /\ JobReturn(FALSE)
        /\ UNCHANGED <<dir, tick>>
  /\ UNCHANGED <<sessVars, dl, temp_dir, loadVars>>
  /\ UNCHANGED <<retryVars, watchVars>>

\* lines 212, 236 and 245-270: the job returns what navigate_back_to_reports
\* returns: True, or False when one of its waits or clicks failed
J_Nav ==
  /\ pc = "job" /\ phase = "try" /\ step = "nav"
  /\ \E ok \in BOOLEAN :
       /\ jobs' = [jobs EXCEPT ![idx].nav = IF ok THEN "ok" ELSE "failed",
                               ![idx].result = IF ok THEN "True" ELSE "False"]
       /\ JobReturn(ok)
  /\ dl' = "none"
  /\ UNCHANGED <<sessVars, dir, temp_dir, tick, loadVars>>
  /\ UNCHANGED <<retryVars, watchVars>>

----------------------------------------------------------------------------
(* The run: process_and_upload_to_bigquery and cleanup *)

\* line 313: WRITE_APPEND adds the file's rows after those of the table
LoadIntoMut(rows, batch) == <<batch>>

LoadInto(rows, batch) == Append(rows, batch)

\* line 294: `if csv_file not in TABLE_MAPPING`
IsMapped(csv_file) == csv_file \in MappedFiles

\* lines 326-327: what the loop removes after the load of csv_file
AfterRemoveMut(d, csv_file) == d

AfterRemove(d, csv_file) == Drop(d, csv_file)

\* lines 317-323 raise: line 326 is not reached, csv_file stays
OnLoadErrorMut(d, csv_file) == Drop(d, csv_file)

OnLoadError(d, csv_file) == d

\* the loads a table has received in this run
LoadsOf(t) == Cardinality({i \in 1..Len(tables[t]) : tables[t][i] # "old"})

\* an iteration raised: line 330 re-raises into the wrapper
LoadRaise ==
  /\ WrappedRaise
  /\ faults' = faults + 1
  /\ p_todo' = {}

\* lines 287-291
L_List ==
  /\ pc = "load" /\ phase = "try" /\ step = "list"
  /\ entry' = IF attempt = 0 THEN ListDir(dir) ELSE entry
  /\ IF CsvFiles(dir) = {}
       THEN /\ Leave("returned", pc)
            /\ UNCHANGED p_todo
       ELSE /\ p_todo' = CsvFiles(dir)
            /\ step' = "next"
            /\ UNCHANGED <<pc, phase, attempt, outcome, lastDelay>>
  /\ UNCHANGED <<sessVars, jobVars, dir, temp_dir, tick, tables, faults>>
  /\ UNCHANGED <<retryVars, watchVars>>

\* line 329: the loop is over, return True
L_Return ==
  /\ pc = "load" /\ phase = "try" /\ step = "next"
  /\ p_todo = {}
  /\ Leave("returned", pc)
  /\ UNCHANGED <<sessVars, jobVars, dir, temp_dir, tick, loadVars>>
  /\ UNCHANGED <<retryVars, watchVars>>

\* lines 293-296: the next file of found_files (a set: any order) is not a key
\* of TABLE_MAPPING: a warning, and on to the next file
L_Skip ==
  /\ pc = "load" /\ phase = "try" /\ step = "next"
  /\ \E csv_file \in p_todo :
       /\ ~IsMapped(csv_file)
       /\ p_todo' = p_todo \ {csv_file}
  /\ UNCHANGED <<ctlVars, sessVars, jobVars, dir, temp_dir, tick, tables, faults,
                 entry>>
  /\ UNCHANGED <<retryVars, watchVars>>

\* lines 298-327, one iteration for a mapped file, up to its end or to the
\* first call that raises:
\*   304-309  read the CSV, write <table>.parquet
\*   311-323  load the parquet file into the table, wait for the result
\*   326      os.remove(csv_path)
\*   327      parquet_file.unlink()
L_File ==
  /\ pc = "load" /\ phase = "try" /\ step = "next"
  /\ \E csv_file \in p_todo :
       LET table_name == TABLE_MAPPING(csv_file)
           parquet_file == ParquetFile(table_name)
           written == Put(dir, parquet_file, [dir[csv_file] EXCEPT !.ctime = tick])
           loaded == [tables EXCEPT ![table_name] = LoadInto(@, dir[csv_file].src)]
       IN
       /\ IsMapped(csv_file)
       /\ \/ /\ dir' = Drop(AfterRemove(written, csv_file), parquet_file)
             /\ tables' = loaded
             /\ p_todo' = p_todo \ {csv_file}
             /\ UNCHANGED <<ctlVars, faults>>
          \/ /\ LoadRaise                      \* read_csv or write_table raised
             /\ UNCHANGED <<dir, tables>>
          \/ /\ LoadRaise                      \* the load raised
             /\ dir' = OnLoadError(written, csv_file)
             /\ UNCHANGED tables
          \/ /\ LoadRaise                      \* os.remove raised
             /\ dir' = written
             /\ tables' = loaded
          \/ /\ LoadRaise                      \* unlink raised
             /\ dir' = AfterRemove(written, csv_file)
             /\ tables' = loaded
  /\ UNCHANGED <<sessVars, jobVars, temp_dir, tick, entry>>
  /\ UNCHANGED <<retryVars, watchVars>>

\* cleanup, lines 334-343 (main's finally, line 373): quit the driver, unlink
\* every file, remove the directory. A call that raises ends it (line 342):
\* driver.quit(), the first unlink, or rmdir.
Cleanup ==
  /\ pc = "cleanup"
  /\ pc' = "done"
  /\ \/ /\ driver' = IF driver = "open" THEN "quit" ELSE driver
        /\ dir' = <<>>
        /\ temp_dir' = FALSE
     \/ /\ driver = "open"
        /\ UNCHANGED <<driver, dir, temp_dir>>
     \/ /\ driver' = IF driver = "open" THEN "quit" ELSE driver
        /\ dir # <<>>
        /\ UNCHANGED <<dir, temp_dir>>
     \/ /\ driver' = IF driver = "open" THEN "quit" ELSE driver
        /\ dir' = <<>>
        /\ UNCHANGED temp_dir
  /\ UNCHANGED <<phase, attempt, step, outcome, lastDelay>>
  /\ UNCHANGED <<bq_client, landmark, jobVars, tick, loadVars>>
  /\ UNCHANGED <<retryVars, watchVars>>

Next ==
  \/ SetupBrowser \/ SetupBigquery \/ Login \/ RunSleep \/ RunExhaust
  \/ NavReports
  \/ J_Generate \/ J_CheckExport \/ J_Export \/ B_Begin \/ B_Finish
  \/ J_WaitDone \/ J_WaitTimeout \/ J_Rename \/ J_Nav
  \/ L_List \/ L_Return \/ L_Skip \/ L_File
  \/ Cleanup

----------------------------------------------------------------------------
(* Claims about the run *)

Reports == 1..Len(REPORT_TYPES)

NoLoads == \A t \in Tables : LoadsOf(t) = 0

\* download_reports went on after report i
Proceeded(i) ==
  IF i < Len(REPORT_TYPES) THEN idx > i ELSE pc \in {"load", "cleanup", "done"}

\* the run was aborted at report i
AbortedAt(i) ==
  /\ idx = i
  /\ pc \in {"cleanup", "done"}
  /\ \A j \in Reports : j > i => ~jobs[j].tried
  /\ NoLoads

\* the job of report i did nothing about a download
NoDownload(i) ==
  /\ ~jobs[i].exported
  /\ jobs[i].waited = None
  /\ jobs[i].renamed = None
  /\ \A f \in DOMAIN dir : dir[f].src # REPORT_TYPES[i]

C7_FailedJobAborts ==
  \A i \in Reports :
    (jobs[i].result = "raised" \/ jobs[i].waited = "timeout") =>
      /\ AbortedAt(i)
      /\ outcome = (IF jobs[i].result = "raised" THEN "raised" ELSE "returned")

C7_Witness ==
  /\ jobs[1].result = "True"
  /\ jobs[2].result = "raised"
  /\ attempt = JobAttempts
  /\ pc = "cleanup"

\* C8 as stated: every step of a report job is covered by the retry: the job
\* has failed for good only after JobAttempts attempts.
C8_FailsOnlyAfterBudget ==
  \A i \in Reports :
    jobs[i].result \in {"False", "raised"} => attempt = JobAttempts

\* C9: a run whose login did not succeed attempts no download and loads
\* nothing; when login fails on all its attempts the run is aborted; a download
\* step happens only after the post-login element was seen.
C9_NoDownloadWithoutLogin ==
  /\ pc \in {"nav_reports", "job", "load"} => landmark
  /\ \A i \in Reports : jobs[i].tried => landmark
  /\ ~landmark => (NoLoads /\ dl = "none" /\ idx = 0)
  /\ (~landmark /\ bq_client = "client" /\ outcome = "raised") =>
       (pc \in {"cleanup", "done"} /\ attempt = LoginAttempts)

C9_Witness ==
  /\ ~landmark /\ bq_client = "client" /\ outcome = "raised"
  /\ attempt = LoginAttempts /\ lastDelay = LoginDelay
  /\ pc = "cleanup"

\* C10: when TEMP_DIR holds exactly the four expected files and no step of the
\* load fails, process_and_upload_to_bigquery does exactly four append loads,
\* one to each table, and leaves no file (CSV or parquet) in TEMP_DIR.
LoadSucceeded ==
  /\ pc \in {"cleanup", "done"}
  /\ outcome = "returned"
  /\ \A i \in Reports : jobs[i].result = "True"

C10_FourLoadsNoFiles ==
  (LoadSucceeded /\ entry = MappedFiles /\ faults = 0) =>
    /\ \A t \in Tables : LoadsOf(t) = 1
    /\ \A i \in Reports :
         LET t == TABLE_MAPPING(REPORT_FILE_MAPPING(REPORT_TYPES[i])) IN
         /\ Len(tables[t]) >= 1
         /\ jobs[i].exported => tables[t][Len(tables[t])] = REPORT_TYPES[i]
    /\ tables["midia"][1] = "old"
    /\ dir = <<>>

C10_Witness ==
  /\ LoadSucceeded /\ entry = MappedFiles /\ faults = 0
  /\ pc = "cleanup"
  /\ tables["midia"] = <<"old", "Relatorio de Midia">>
  /\ tables["atividades"] = <<"Relatorio de atividades">>

\* the .csv files process_and_upload_to_bigquery found when it was entered
EntryCsv == {f \in entry : EndsWith(f, CSV)}

LoadLeft == pc \in {"cleanup", "done"}

\* C11: when only three of the four expected files are in TEMP_DIR,
\* process_and_upload_to_bigquery raises (a count mismatch) and loads nothing.
C11_CountMismatchFails ==
  (EntryCsv \subseteq MappedFiles /\ Cardinality(EntryCsv) = 3) =>
    /\ NoLoads
    /\ LoadLeft => outcome = "raised"

\* C12: a .csv file that is not a key of TABLE_MAPPING makes
\* process_and_upload_to_bigquery fail with an error; it is not skipped.
C12_UnmappedIsError ==
  (\E csv_file \in EntryCsv : ~IsMapped(csv_file)) =>
    /\ NoLoads
    /\ LoadLeft => outcome = "raised"

\* C13: a source CSV file is deleted only after its load was confirmed: a
\* mapped file found at entry whose table has received no load is still in
\* TEMP_DIR, in particular at the start of the retry attempt that follows a
\* failed load.
C13_DeletedOnlyAfterLoad ==
  pc \in {"load", "cleanup"} =>
    \A csv_file \in EntryCsv :
      (IsMapped(csv_file) /\ LoadsOf(TABLE_MAPPING(csv_file)) = 0) =>
        /\ csv_file \in DOMAIN dir
        /\ csv_file \in CsvFiles(dir)

C13_Witness ==
  /\ pc = "load" /\ phase = "try" /\ step = "list" /\ attempt = 1
  /\ faults = 1
  /\ ParquetFile("registros") \in DOMAIN dir
  /\ LoadsOf("registros") = 0
  /\ registros_csv \in DOMAIN dir

\* C14: across all retry attempts of process_and_upload_to_bigquery a file is
\* appended to its table exactly once and then deleted: no table receives a
\* second load in a run, and a file whose load succeeded is gone.
C14_ConsumedOnce ==
  \A csv_file \in MappedFiles :
    /\ LoadsOf(TABLE_MAPPING(csv_file)) <= 1
    /\ (LoadsOf(TABLE_MAPPING(csv_file)) = 1 /\ pc = "load" /\ step = "list") =>
         csv_file \notin DOMAIN dir

\* C15: loads are append-only and not deduplicated: a step that changes a table
\* adds the rows of the loaded file after the rows the table had, whatever they
\* are; no step removes or replaces rows (so a file loaded twice into an empty
\* table is there twice).
C15_AppendOnly ==
  [][\A t \in Tables :
       \/ tables'[t] = tables[t]
       \/ \E csv_file \in CsvFiles(dir) :
            /\ IsMapped(csv_file)
            /\ TABLE_MAPPING(csv_file) = t
            /\ tables'[t] = tables[t] \o <<dir[csv_file].src>>]_vars

C15_Witness ==
  tables["registros"] = <<"Relatorio de Registros", "Relatorio de Registros">>

\* C16: after main has left (whatever the path), the browser session is closed
\* and TEMP_DIR and its contents are gone.
C16_CleanupLeavesNothing ==
  pc = "done" =>
    /\ driver # "open"
    /\ dir = <<>>
    /\ ~temp_dir

\* C18: after the rename step of a report job with data, and until the load
\* starts, the file the watcher confirmed for that job (non-empty, written by
\* this job's download) is the one under REPORT_FILE_MAPPING[report_type]; it
\* is no longer there under its downloaded name; a file that had the canonical
\* name before is replaced; the canonical files of the other report types are
\* as they were (of their own job, or as found at the start of the run).
DownloadsOver ==
  \/ pc = "job"
  \/ pc = "load" /\ phase = "try" /\ step = "list" /\ attempt = 0

C18_ConfirmedFileIsCanonical ==
  DownloadsOver =>
    \A i \in Reports :
      LET new_filename == REPORT_FILE_MAPPING(REPORT_TYPES[i]) IN
      /\ jobs[i].renamed = "ok" =>
           /\ new_filename \in DOMAIN dir
           /\ dir[new_filename].src = REPORT_TYPES[i]
           /\ dir[new_filename].size > 0
           /\ \A f \in DOMAIN dir \ {new_filename} : dir[f].src # REPORT_TYPES[i]
      /\ (jobs[i].renamed # "ok" /\ new_filename \in DOMAIN dir) =>
           dir[new_filename] = StaleFile
      /\ \A f \in DOMAIN dir \ MappedFiles :
           dir[f].src = "stale" => (f = dl_csv /\ dir[f] = StaleFile)

C18_Witness ==
  /\ pc = "job" /\ idx = 3 /\ step = "nav"
  /\ jobs[3].renamed = "ok"
  /\ dir[ganhos_csv].src = "Relatorio de Ganhos"
  /\ dl_csv \in DOMAIN dir /\ dir[dl_csv] = StaleFile
  /\ midia_csv \in DOMAIN dir /\ registros_csv \notin DOMAIN dir

\* C19: every batch loaded in a run comes from a file that a report job of
\* this run downloaded and renamed; a file that was in TEMP_DIR when the run
\* started is never loaded.
C19_LoadedFilesAreOfThisRun ==
  \A t \in Tables : \A k \in 1..Len(tables[t]) :
    tables[t][k] # "old" =>
      \E i \in Reports :
        /\ tables[t][k] = REPORT_TYPES[i]
        /\ t = TABLE_MAPPING(REPORT_FILE_MAPPING(REPORT_TYPES[i]))
        /\ jobs[i].renamed = "ok"

\* C20: every run terminates: main reaches cleanup and stops, whatever fails.
\* A retry-wrapped call invokes its operation at most 5 times: an invocation
\* starts with the loop variable `attempt` below max_attempts = 5. A report job
\* attempt is named by (report, attempt): every newly started one has a later
\* report, or the same report and a larger `attempt`, so that there are at most
\* Len(REPORT_TYPES) * JobAttempts = 20 of them in a run.
Wrapped == {"setup_browser", "setup_bigquery", "login", "job", "load"}

Invoking == pc \in Wrapped /\ phase = "try"

JobAttemptStarts == pc = "job" /\ phase = "try" /\ step = "generate"

C20_Terminates ==
  /\ <>(pc = "done")
  /\ [](/\ (Invoking => attempt < MaxAttemptsOf(pc))
        /\ (pc \in Wrapped => MaxAttemptsOf(pc) = 5)
        /\ idx \in 0..Len(REPORT_TYPES)
        /\ Len(REPORT_TYPES) * JobAttempts = 20
        /\ (JobAttemptStarts =>
              (idx \in Reports /\ attempt \in 0..(JobAttempts - 1))))
  /\ [][/\ (JobAttemptStarts => ~JobAttemptStarts')
         /\ ((JobAttemptStarts' /\ ~JobAttemptStarts) =>
               (idx' > idx \/ (idx' = idx /\ attempt' > attempt)))
         /\ idx' >= idx
         /\ (pc = "done" => pc' = "done")]_vars

C20_Witness ==
  /\ pc = "done" /\ outcome = "raised"
  /\ idx = Len(REPORT_TYPES) /\ jobs[idx].result = "raised"
  /\ attempt = JobAttempts /\ lastDelay = JobDelay
  /\ \A i \in 1..(idx - 1) : jobs[i].result = "True"

----------------------------------------------------------------------------
(* Specifications *)

RetryStart == RetryInit /\ WatchIdle /\ RunIdle

SpecRetry == RetryStart /\ [][RetryNext]_vars

WatchStart == WatchInit /\ RetryIdle /\ RunIdle

SpecWatcher == WatchStart /\ [][WatchNext]_vars

Init == RunInit /\ RetryIdle /\ WatchIdle

Spec == Init /\ [][Next]_vars

\* main is one thread that runs until it ends: every call it makes returns or
\* raises (the waits have timeouts, the sleeps are finite), so a step of the
\* program that can be taken is taken. The browser's steps are not required.
ProgramNext ==
  \/ SetupBrowser \/ SetupBigquery \/ Login \/ RunSleep \/ RunExhaust
  \/ NavReports
  \/ J_Generate \/ J_CheckExport \/ J_Export
  \/ J_WaitDone \/ J_WaitTimeout \/ J_Rename \/ J_Nav
  \/ L_List \/ L_Return \/ L_Skip \/ L_File
  \/ Cleanup

SpecLive == Init /\ [][Next]_vars /\ WF_vars(ProgramNext)

====
